---- MODULE Spec2Model ----
(***************************************************************************)
(* Writesleuth front end: the crop-selection screen (in its gesture-handler *)
(* and its PanResponder version), the overlay adjustment screen, the home  *)
(* screen's compare handler, the history screen, the score colours of the  *)
(* results and overlay screens, and the two zustand stores they share.     *)
(*                                                                         *)
(* Numbers.  Lengths are display or source pixels.  A JavaScript number    *)
(* that comes out of a division is kept as an exact fraction               *)
(* [num, den]; den = 0 is the non-finite result (Infinity or NaN) of a     *)
(* division by a zero display dimension.  overlayScale and overlayAlpha    *)
(* are kept in hundredths (1.0 is 100).                                    *)
(* A nullable string (string | null) is a tuple: <<>> is null.             *)
(***************************************************************************)
EXTENDS Integers, Sequences, FiniteSets, TLC

VARIABLES
    stack,          \* expo-router navigation stack, top is the last element
    appStore,       \* useAppStore state
    overlayStore,   \* useOverlayStore state
    imageLayout,    \* crop.tsx useState: displayed size of the source image
    imageSize,      \* crop.tsx useState: pixel size of the source image
    cropBox,        \* crop.tsx shared values cropX, cropY, cropWidth, cropHeight
    startBox,       \* crop.tsx shared values startX, startY, startW, startH
    activeGesture,  \* the crop-screen gesture in progress, "none" when idle
    getSize,        \* the Image.getSize lookup of the mounted crop screen
    cropInFlight,   \* crop requests sent and not yet settled
    cropSent,       \* number of crop requests sent so far
    gesturesBegun,  \* number of crop-screen gestures begun since the screen mounted
    layoutEvents,   \* number of onLayout events since the screen mounted
    overlayRotation,  \* overlay.tsx reads it from useOverlayStore: degrees
    gestureState,   \* overlay.tsx useRef: start values of the pan gesture
    panClosure,     \* what the handlers of overlayPanResponder closed over
    touching,       \* overlayPanResponder is granted and not yet released
    timers,         \* pending setTimeout callbacks of the overlay screen
    effectTimer,    \* the timer the latest run of the debounce effect created
    lcInFlight,     \* local comparison requests sent and not yet settled
    lcSent,         \* number of local comparison requests sent so far
    overlayImageLayout,  \* overlay.tsx useState imageLayout: displayed size of the base image
    compareInFlight,  \* compare requests sent and not yet settled
    compareSent,    \* number of compare requests sent so far
    historyReload,  \* the loadHistory call handleCompare awaits: "idle" or "pending"
    historyScreen,  \* history.tsx: how often it was mounted, and its useState loading
    historyLoads,   \* getHistory requests of the history screen not yet settled
    detailsInFlight,  \* getComparison requests sent and not yet settled
    detailsSent     \* number of getComparison requests sent so far

cropScreenVars == <<imageLayout, imageSize, cropBox, startBox, activeGesture, getSize,
                    gesturesBegun, layoutEvents>>
cropNetVars == <<cropInFlight, cropSent>>
overlayScreenVars == <<gestureState, panClosure, overlayImageLayout, touching, timers,
                       effectTimer>>
localNetVars == <<lcInFlight, lcSent>>
historyVars == <<historyScreen, historyLoads, detailsInFlight, detailsSent>>
homeVars == <<compareInFlight, compareSent, historyReload, historyVars>>
overlayVars == <<overlayRotation, overlayScreenVars, localNetVars>>

----------------------------------------------------------------------------
(* Bounds of the model *)

MaxCropRequests == 2
MaxGestures == 2
MaxLayoutEvents == 1
MaxLocalRequests == 2
MaxCompareRequests == 2
MaxRotation == 200
MaxDetailRequests == 2
MaxHistoryVisits == 2

(* Program constants *)

MIN_SIZE == 50

Null == <<>>

Max(a, b) == IF a >= b THEN a ELSE b
Min(a, b) == IF a <= b THEN a ELSE b

Size(w, h) == [width |-> w, height |-> h]
Box(x, y, w, h) == [x |-> x, y |-> y, width |-> w, height |-> h]

(* The specimens of the session and their pixel sizes. *)
QuestionedImage == <<"questioned">>
KnownImage == <<"known">>
TrueSize(image) ==
    IF image = QuestionedImage THEN Size(600, 1200) ELSE Size(800, 600)

(* Sizes the image view is laid out at: portrait and landscape; a collapsed
   view reports a zero size. *)
LayoutSizes == {Size(300, 400), Size(400, 300)}
CollapsedLayout == Size(0, 0)

(* Gesture translations since the start of the gesture. *)
Translations == {-60, 0, 60}

Corners == {"tl", "tr", "bl", "br"}

(* What the crop endpoint reports back as the size of the region. *)
ReturnedSizes == {Size(300, 200), Size(120, 90)}

----------------------------------------------------------------------------
(* JavaScript arithmetic *)

Quotient(n, d) == [num |-> n, den |-> d]
Times(v, q) == [num |-> v * q.num, den |-> q.den]

\* Math.round: the nearest integer, halves towards +Infinity.
MathRound(q) == (2 * q.num + q.den) \div (2 * q.den)

NonFinite == [finite |-> FALSE, val |-> 0]
Finite(v) == [finite |-> TRUE, val |-> v]

\* Math.round(v * scale) as it is serialised into the request body.
RoundScaled(v, scale) ==
    IF scale.den = 0 THEN NonFinite ELSE Finite(MathRound(Times(v, scale)))

\* v * k / 100 for the percentages of handleImageLayout.
Percent(v, k) == (v * k) \div 100

----------------------------------------------------------------------------
(* useOverlayStore *)

InitialOverlayStore ==
    [ sourceImage |-> Null, baseImage |-> Null,
      croppedImage |-> Null, croppedWidth |-> 0, croppedHeight |-> 0,
      overlayX |-> 50, overlayY |-> 50, overlayScale |-> 100, overlayAlpha |-> 70,
      cropRect |-> Box(50, 50, 150, 100),
      isCropMode |-> FALSE, isOverlayMode |-> FALSE,
      showGrid |-> FALSE, showCrosshair |-> TRUE, showHeatmap |-> FALSE,
      localSSIM |-> 0, edgeOverlap |-> 0,
      differenceHeatmap |-> Null, edgeVisualization |-> Null,
      isCropping |-> FALSE, isComparing |-> FALSE ]

setSourceImage(s, image) == [s EXCEPT !.sourceImage = image]
setBaseImage(s, image) == [s EXCEPT !.baseImage = image]
setCroppedImage(s, image, width, height) ==
    [s EXCEPT !.croppedImage = image, !.croppedWidth = width, !.croppedHeight = height]
setCropRect(s, rect) == [s EXCEPT !.cropRect = rect]
setOverlayPosition(s, x, y) == [s EXCEPT !.overlayX = x, !.overlayY = y]
setOverlayScale(s, scale) == [s EXCEPT !.overlayScale = scale]
setOverlayAlpha(s, alpha) == [s EXCEPT !.overlayAlpha = alpha]
toggleCropMode(s, enabled) == [s EXCEPT !.isCropMode = enabled]
toggleOverlayMode(s, enabled) == [s EXCEPT !.isOverlayMode = enabled]
setLocalComparison(s, ssim, edge, heatmap, edgeViz) ==
    [s EXCEPT !.localSSIM = ssim, !.edgeOverlap = edge,
              !.differenceHeatmap = heatmap, !.edgeVisualization = edgeViz]
setIsCropping(s, loading) == [s EXCEPT !.isCropping = loading]
setIsComparing(s, loading) == [s EXCEPT !.isComparing = loading]

toggleGrid(s) == [s EXCEPT !.showGrid = ~s.showGrid]
toggleCrosshair(s) == [s EXCEPT !.showCrosshair = ~s.showCrosshair]
toggleHeatmap(s) == [s EXCEPT !.showHeatmap = ~s.showHeatmap]

\* resetOverlay that clears the two images as well.
resetOverlay_ClearsImages(s) ==
    [s EXCEPT !.sourceImage = Null, !.baseImage = Null,
              !.croppedImage = Null, !.croppedWidth = 0, !.croppedHeight = 0,
              !.overlayX = 50, !.overlayY = 50, !.overlayScale = 100,
              !.overlayAlpha = 70, !.isOverlayMode = FALSE,
              !.localSSIM = 0, !.edgeOverlap = 0,
              !.differenceHeatmap = Null, !.edgeVisualization = Null]

\* resetAll that leaves the three display toggles as they are.
resetAll_KeepsToggles(s) ==
    [s EXCEPT !.sourceImage = Null, !.baseImage = Null,
              !.croppedImage = Null, !.croppedWidth = 0, !.croppedHeight = 0,
              !.overlayX = 50, !.overlayY = 50, !.overlayScale = 100,
              !.overlayAlpha = 70, !.cropRect = Box(50, 50, 150, 100),
              !.isCropMode = FALSE, !.isOverlayMode = FALSE,
              !.localSSIM = 0, !.edgeOverlap = 0,
              !.differenceHeatmap = Null, !.edgeVisualization = Null,
              !.isCropping = FALSE, !.isComparing = FALSE]

resetOverlay(s) ==
    [s EXCEPT !.croppedImage = Null, !.croppedWidth = 0, !.croppedHeight = 0,
              !.overlayX = 50, !.overlayY = 50, !.overlayScale = 100,
              !.overlayAlpha = 70, !.isOverlayMode = FALSE,
              !.localSSIM = 0, !.edgeOverlap = 0,
              !.differenceHeatmap = Null, !.edgeVisualization = Null]

resetAll(s) ==
    [s EXCEPT !.sourceImage = Null, !.baseImage = Null,
              !.croppedImage = Null, !.croppedWidth = 0, !.croppedHeight = 0,
              !.overlayX = 50, !.overlayY = 50, !.overlayScale = 100,
              !.overlayAlpha = 70, !.cropRect = Box(50, 50, 150, 100),
              !.isCropMode = FALSE, !.isOverlayMode = FALSE,
              !.showGrid = FALSE, !.showCrosshair = TRUE, !.showHeatmap = FALSE,
              !.localSSIM = 0, !.edgeOverlap = 0,
              !.differenceHeatmap = Null, !.edgeVisualization = Null,
              !.isCropping = FALSE, !.isComparing = FALSE]

(* useAppStore *)

InitialAppStore ==
    [ questionedImage |-> Null, knownImage |-> Null, isComparing |-> FALSE,
      currentResult |-> Null, history |-> <<>>, error |-> Null ]

\* The ComparisonResult the compare endpoint produces for the comparison
\* numbered id: sample results with scores on both sides of the thresholds.
SubScores(id) ==
    IF id % 2 = 1
    THEN << [name |-> "Structural Similarity", score |-> 75],
            [name |-> "Edge Overlap", score |-> 49] >>
    ELSE << [name |-> "Structural Similarity", score |-> 50],
            [name |-> "Edge Overlap", score |-> 90],
            [name |-> "AI Deep Analysis", score |-> 60] >>

CompositeResult(id) ==
    [ id |-> id,
      timestamp |-> id,
      questioned_image_thumb |-> <<"questioned_thumb", id>>,
      known_image_thumb |-> <<"known_thumb", id>>,
      processed_questioned |-> <<"processed_questioned", id>>,
      processed_known |-> <<"processed_known", id>>,
      difference_heatmap |-> <<"difference_heatmap", id>>,
      composite_score |-> IF id % 2 = 1 THEN 62 ELSE 67,
      sub_scores |-> SubScores(id),
      verdict |-> IF id % 2 = 1 THEN "Possible Match" ELSE "Likely Match",
      verdict_color |-> IF id % 2 = 1 THEN "#f59e0b" ELSE "#22c55e",
      ai_analysis |-> <<"ai_analysis", id>> ]

setAppIsComparing(s, comparing) == [s EXCEPT !.isComparing = comparing]
setCurrentResult(s, result) == [s EXCEPT !.currentResult = result]
setHistory(s, history) == [s EXCEPT !.history = history]
setError(s, error) == [s EXCEPT !.error = error]

\* The app store once both specimens are picked and the comparison numbered
\* id has been shown on the results screen.
ComparedAppStore(id) ==
    setHistory(
      setCurrentResult(
        [InitialAppStore EXCEPT !.questionedImage = QuestionedImage,
                                !.knownImage = KnownImage],
        <<CompositeResult(id)>>),
      <<id>>)

----------------------------------------------------------------------------
(* expo-router *)

Top(s) == IF Len(s) = 0 THEN "none" ELSE s[Len(s)]
push(s, route) == Append(s, route)
replace(s, route) == IF Len(s) = 0 THEN <<route>> ELSE [s EXCEPT ![Len(s)] = route]
back(s) == IF Len(s) <= 1 THEN s ELSE SubSeq(s, 1, Len(s) - 1)

----------------------------------------------------------------------------
(* Overlay adjustment screen, overlay.tsx: component state *)

\* What one render of OverlayAdjustmentScreen binds, as far as the debounce
\* effect and runLocalComparison read it.
Render(s) ==
    [ baseImage |-> s.baseImage, croppedImage |-> s.croppedImage,
      croppedWidth |-> s.croppedWidth, croppedHeight |-> s.croppedHeight,
      overlayX |-> s.overlayX, overlayY |-> s.overlayY,
      overlayScale |-> s.overlayScale ]

\* The dependency list of the debounce effect.
effectDeps(s) == <<s.overlayX, s.overlayY, s.overlayScale>>

\* The cleanup of the debounce effect without its clearTimeout.
effectCleanup_NoClear(pending, handle) == pending

\* The cleanup of the debounce effect: clearTimeout(timer).
effectCleanup(pending, handle) ==
    IF handle = Null THEN pending ELSE pending \ {handle[1]}

OverlayScreenMounted == Top(stack) = "overlay"

\* The first render of a mounted OverlayAdjustmentScreen: the refs are
\* created and the debounce effect runs once.
mountOverlay(s, rotation) ==
    /\ gestureState' =
         [ startX |-> s.overlayX, startY |-> s.overlayY,
           startScale |-> s.overlayScale, startRotation |-> rotation,
           initialDistance |-> 0, initialAngle |-> 0, isMultiTouch |-> FALSE ]
    /\ panClosure' =
         [ overlayX |-> s.overlayX, overlayY |-> s.overlayY,
           overlayScale |-> s.overlayScale, overlayRotation |-> rotation ]
    /\ overlayImageLayout' = Size(0, 0)
    /\ touching' = FALSE
    /\ timers' = (IF OverlayScreenMounted THEN effectCleanup(timers, effectTimer)
                                         ELSE timers)
                 \cup {Render(s)}
    /\ effectTimer' = <<Render(s)>>

\* The screen unmounts: the effect's cleanup runs.
unmountOverlay ==
    /\ timers' = effectCleanup(timers, effectTimer)
    /\ effectTimer' = Null
    /\ touching' = FALSE
    /\ UNCHANGED <<gestureState, panClosure, overlayImageLayout>>

\* The render that follows a store update on the mounted screen: the effect
\* runs again when one of its dependencies changed.
rerender(s) ==
    IF effectDeps(s) # effectDeps(overlayStore)
    THEN /\ timers' = effectCleanup(timers, effectTimer) \cup {Render(s)}
         /\ effectTimer' = <<Render(s)>>
    ELSE UNCHANGED <<timers, effectTimer>>

----------------------------------------------------------------------------
(* Home screen, index.tsx *)

\* What getHistory(5) returns after the comparisons sent so far.
historyData(sent) == [i \in 1..Min(sent, 5) |-> sent + 1 - i]

\* The analyze button, enabled when both specimens are present and no
\* comparison is running: handleCompare up to its first await.
handleCompare ==
    /\ Top(stack) = "index"
    /\ ~appStore.isComparing
    /\ appStore.questionedImage # Null
    /\ appStore.knownImage # Null
    /\ compareSent < MaxCompareRequests
    /\ appStore' = setError(setAppIsComparing(appStore, TRUE), Null)
    /\ compareInFlight' = compareInFlight \cup {[id |-> compareSent + 1]}
    /\ compareSent' = compareSent + 1
    /\ UNCHANGED <<stack, overlayStore, cropScreenVars, cropNetVars, overlayVars,
                   historyReload, historyVars>>

\* compareHandwriting resolves: setCurrentResult, then loadHistory is awaited.
compareResolved(r) ==
    /\ r \in compareInFlight
    /\ compareInFlight' = compareInFlight \ {r}
    /\ appStore' = setCurrentResult(appStore, <<CompositeResult(r.id)>>)
    /\ historyReload' = "pending"
    /\ UNCHANGED <<stack, overlayStore, cropScreenVars, cropNetVars, overlayVars,
                   compareSent, historyVars>>

\* compareHandwriting rejects and the request is sent again.
compareRejected_Retry(r) ==
    /\ r \in compareInFlight
    /\ compareInFlight' = (compareInFlight \ {r}) \cup {[id |-> compareSent + 1]}
    /\ compareSent' = compareSent + 1
    /\ appStore' = setError(appStore, <<"Analysis failed">>)
    /\ UNCHANGED <<stack, overlayStore, cropScreenVars, cropNetVars, overlayVars,
                   historyReload, historyVars>>

\* compareHandwriting rejects without the finally of handleCompare.
compareRejected_NoFinally(r) ==
    /\ r \in compareInFlight
    /\ compareInFlight' = compareInFlight \ {r}
    /\ appStore' = setError(appStore, <<"Analysis failed">>)
    /\ UNCHANGED <<stack, overlayStore, cropScreenVars, cropNetVars, overlayVars,
                   compareSent, historyReload, historyVars>>

\* compareHandwriting rejects (HTTP error, network error or the 120000 ms
\* timeout): catch, then finally.
compareRejected(r) ==
    /\ r \in compareInFlight
    /\ compareInFlight' = compareInFlight \ {r}
    /\ appStore' = setAppIsComparing(setError(appStore, <<"Analysis failed">>), FALSE)
    /\ UNCHANGED <<stack, overlayStore, cropScreenVars, cropNetVars, overlayVars,
                   compareSent, historyReload, historyVars>>

\* The awaited loadHistory returns, its getHistory having resolved (setHistory)
\* or rejected (logged): router.push('/results'), then finally.
historyReloadSettled(resolved) ==
    /\ historyReload = "pending"
    /\ historyReload' = "idle"
    /\ appStore' =
         setAppIsComparing(
           IF resolved THEN setHistory(appStore, historyData(compareSent)) ELSE appStore,
           FALSE)
    /\ stack' = push(stack, "results")
    /\ UNCHANGED <<overlayStore, cropScreenVars, cropNetVars, overlayVars,
                   compareInFlight, compareSent, historyVars>>

----------------------------------------------------------------------------
(* History screen, history.tsx *)

HistoryNotYetOpened ==
    /\ historyScreen = [mounts |-> 0, loading |-> FALSE]
    /\ historyLoads = {}
    /\ detailsInFlight = {}
    /\ detailsSent = 0

\* The history screen stays mounted under the screens pushed on top of it.
HistoryScreenMounted == \E i \in DOMAIN stack : stack[i] = "history"

\* What getHistory(50) returns after the comparisons sent so far.
historyScreenData(sent) == [i \in 1..Min(sent, 50) |-> sent + 1 - i]

\* What GET /comparison/{id} returns for a finished comparison: the record
\* the history store keeps of the result, under the field names
\* handleViewDetails reads.
getComparisonResponse(id) ==
    LET result == CompositeResult(id)
    IN  [ id |-> result.id,
          timestamp |-> result.timestamp,
          questioned_thumb |-> result.questioned_image_thumb,
          known_thumb |-> result.known_image_thumb,
          composite_score |-> result.composite_score,
          sub_scores |-> result.sub_scores,
          verdict |-> result.verdict,
          verdict_color |-> result.verdict_color,
          ai_analysis |-> result.ai_analysis ]

\* handleViewDetails: the conversion "to the format expected by results
\* screen".
detailsToResult(details) ==
    [ id |-> details.id,
      timestamp |-> details.timestamp,
      questioned_image_thumb |-> details.questioned_thumb,
      known_image_thumb |-> details.known_thumb,
      processed_questioned |-> details.questioned_thumb,
      processed_known |-> details.known_thumb,
      difference_heatmap |-> details.questioned_thumb,
      composite_score |-> details.composite_score,
      sub_scores |-> details.sub_scores,
      verdict |-> details.verdict,
      verdict_color |-> details.verdict_color,
      ai_analysis |-> details.ai_analysis ]

\* Home screen: the history button; the history screen mounts with
\* loading = true and its effect calls loadHistory.
openHistory ==
    /\ Top(stack) = "index"
    /\ historyScreen.mounts < MaxHistoryVisits
    /\ stack' = push(stack, "history")
    /\ historyScreen' = [mounts |-> historyScreen.mounts + 1, loading |-> TRUE]
    /\ historyLoads' = historyLoads \cup {historyScreen.mounts + 1}
    /\ UNCHANGED <<appStore, overlayStore, cropScreenVars, cropNetVars, overlayVars,
                   compareInFlight, compareSent, historyReload, detailsInFlight,
                   detailsSent>>

\* loadHistory of the mount numbered mount settles: setHistory when getHistory
\* resolved, then finally setLoading(false), which only reaches the mount
\* that called it.
loadHistorySettled(mount, resolved) ==
    /\ mount \in historyLoads
    /\ historyLoads' = historyLoads \ {mount}
    /\ appStore' = IF resolved THEN setHistory(appStore, historyScreenData(compareSent))
                   ELSE appStore
    /\ historyScreen' = IF HistoryScreenMounted /\ historyScreen.mounts = mount
                        THEN [historyScreen EXCEPT !.loading = FALSE]
                        ELSE historyScreen
    /\ UNCHANGED <<stack, overlayStore, cropScreenVars, cropNetVars, overlayVars,
                   compareInFlight, compareSent, historyReload, detailsInFlight,
                   detailsSent>>

\* A tap on a card of the list: handleViewDetails up to its await.
handleViewDetails(item) ==
    /\ Top(stack) = "history"
    /\ ~historyScreen.loading
    /\ \E i \in DOMAIN appStore.history : appStore.history[i] = item
    /\ detailsSent < MaxDetailRequests
    /\ detailsInFlight' = detailsInFlight \cup {[request |-> detailsSent + 1, id |-> item]}
    /\ detailsSent' = detailsSent + 1
    /\ UNCHANGED <<stack, appStore, overlayStore, cropScreenVars, cropNetVars, overlayVars,
                   compareInFlight, compareSent, historyReload, historyScreen,
                   historyLoads>>

\* getComparison resolves: setCurrentResult, router.push('/results').
detailsResolved(r) ==
    /\ r \in detailsInFlight
    /\ detailsInFlight' = detailsInFlight \ {r}
    /\ appStore' = setCurrentResult(appStore, <<detailsToResult(getComparisonResponse(r.id))>>)
    /\ stack' = push(stack, "results")
    /\ UNCHANGED <<overlayStore, cropScreenVars, cropNetVars, overlayVars,
                   compareInFlight, compareSent, historyReload, historyScreen,
                   historyLoads, detailsSent>>

\* getComparison rejects: an alert, nothing stored.
detailsRejected(r) ==
    /\ r \in detailsInFlight
    /\ detailsInFlight' = detailsInFlight \ {r}
    /\ UNCHANGED <<stack, appStore, overlayStore, cropScreenVars, cropNetVars, overlayVars,
                   compareInFlight, compareSent, historyReload, historyScreen,
                   historyLoads, detailsSent>>

\* The header's back button of the history and results screens.
headerBack ==
    /\ Top(stack) \in {"history", "results"}
    /\ stack' = back(stack)
    /\ UNCHANGED <<appStore, overlayStore, cropScreenVars, cropNetVars, overlayVars,
                   homeVars>>

----------------------------------------------------------------------------
(* Crop-selection screen, crop.tsx *)

\* The state of a freshly mounted CropSelectionScreen.
InitialImageLayout == Size(300, 400)
InitialImageSize == Size(1000, 1000)
InitialCropBox == Box(50, 50, 200, 150)
InitialStartBox == Box(0, 0, 0, 0)

\* Leaving a screen unmounts it: its pending getSize callback and its gesture
\* no longer reach a mounted component.
CropScreenMounted == Top(stack) = "crop"

\* results screen: handleCropOverlayMode, which mounts the crop screen; its
\* first effect starts Image.getSize(sourceImage).
handleCropOverlayMode ==
    /\ Top(stack) = "results"
    /\ LET sourceImg ==
             IF appStore.questionedImage # Null THEN appStore.questionedImage
             ELSE IF appStore.currentResult # Null
                  THEN <<"data:image/jpeg;base64",
                         appStore.currentResult[1].questioned_image_thumb>>
                  ELSE Null
           baseImg ==
             IF appStore.knownImage # Null THEN appStore.knownImage
             ELSE IF appStore.currentResult # Null
                  THEN <<"data:image/jpeg;base64",
                         appStore.currentResult[1].known_image_thumb>>
                  ELSE Null
       IN  /\ sourceImg # Null
           /\ baseImg # Null
           /\ overlayStore' =
                 toggleCropMode(
                   setBaseImage(setSourceImage(resetAll(overlayStore), sourceImg), baseImg),
                   TRUE)
    /\ stack' = push(stack, "crop")
    /\ imageLayout' = InitialImageLayout
    /\ imageSize' = InitialImageSize
    /\ cropBox' = InitialCropBox
    /\ startBox' = InitialStartBox
    /\ activeGesture' = "none"
    /\ getSize' = "pending"
    /\ gesturesBegun' = 0
    /\ layoutEvents' = 0
    /\ UNCHANGED <<appStore, homeVars, cropNetVars>>
    /\ UNCHANGED overlayVars

\* Image.getSize success callback.
getSizeSuccess ==
    /\ CropScreenMounted
    /\ getSize = "pending"
    /\ imageSize' = TrueSize(overlayStore.sourceImage)
    /\ getSize' = "done"
    /\ UNCHANGED <<stack, appStore, homeVars, overlayStore, imageLayout, cropBox, startBox,
                   activeGesture, gesturesBegun, layoutEvents, cropNetVars>>
    /\ UNCHANGED overlayVars

\* Image.getSize error callback: only logs.
getSizeFailure ==
    /\ CropScreenMounted
    /\ getSize = "pending"
    /\ getSize' = "failed"
    /\ UNCHANGED <<stack, appStore, homeVars, overlayStore, imageLayout, imageSize, cropBox,
                   startBox, activeGesture, gesturesBegun, layoutEvents, cropNetVars>>
    /\ UNCHANGED overlayVars

handleImageLayout(layout) ==
    /\ CropScreenMounted
    /\ layoutEvents < MaxLayoutEvents
    /\ layoutEvents' = layoutEvents + 1
    /\ imageLayout' = layout
    /\ cropBox' = Box(Percent(layout.width, 15), Percent(layout.height, 15),
                      Percent(layout.width, 70), Percent(layout.height, 50))
    /\ UNCHANGED <<stack, appStore, homeVars, overlayStore, imageSize, startBox,
                   activeGesture, getSize, gesturesBegun, cropNetVars>>
    /\ UNCHANGED overlayVars

moveGestureStart ==
    /\ CropScreenMounted
    /\ activeGesture = "none"
    /\ activeGesture' = "move"
    /\ startBox' = [startBox EXCEPT !.x = cropBox.x, !.y = cropBox.y]
    /\ gesturesBegun < MaxGestures
    /\ gesturesBegun' = gesturesBegun + 1
    /\ UNCHANGED <<stack, appStore, homeVars, overlayStore, imageLayout, imageSize, cropBox,
                   getSize, layoutEvents, cropNetVars>>
    /\ UNCHANGED overlayVars

moveGestureUpdate(translationX, translationY) ==
    /\ CropScreenMounted
    /\ activeGesture = "move"
    /\ LET newX == startBox.x + translationX
           newY == startBox.y + translationY
       IN  cropBox' =
             [cropBox EXCEPT
                !.x = Max(0, Min(newX, imageLayout.width - cropBox.width)),
                !.y = Max(0, Min(newY, imageLayout.height - cropBox.height))]
    /\ UNCHANGED <<stack, appStore, homeVars, overlayStore, imageLayout, imageSize, startBox,
                   activeGesture, getSize, gesturesBegun, layoutEvents, cropNetVars>>
    /\ UNCHANGED overlayVars

cornerGestureStart(corner) ==
    /\ CropScreenMounted
    /\ activeGesture = "none"
    /\ activeGesture' = corner
    /\ startBox' = cropBox
    /\ gesturesBegun < MaxGestures
    /\ gesturesBegun' = gesturesBegun + 1
    /\ UNCHANGED <<stack, appStore, homeVars, overlayStore, imageLayout, imageSize, cropBox,
                   getSize, layoutEvents, cropNetVars>>
    /\ UNCHANGED overlayVars

\* The box a corner update leaves, by corner.
cornerResize(corner, box, start, layout, dx, dy) ==
    CASE corner = "tl" ->
           LET newX == start.x + dx
               newY == start.y + dy
               newW == start.width - dx
               newH == start.height - dy
           IN  IF newW >= MIN_SIZE /\ newH >= MIN_SIZE /\ newX >= 0 /\ newY >= 0
               THEN Box(newX, newY, newW, newH)
               ELSE box
      [] corner = "tr" ->
           LET newY == start.y + dy
               newW == start.width + dx
               newH == start.height - dy
           IN  IF newW >= MIN_SIZE /\ newH >= MIN_SIZE /\ newY >= 0
               THEN Box(box.x, newY, Min(newW, layout.width - start.x), newH)
               ELSE box
      [] corner = "bl" ->
           LET newX == start.x + dx
               newW == start.width - dx
               newH == start.height + dy
           IN  IF newW >= MIN_SIZE /\ newH >= MIN_SIZE /\ newX >= 0
               THEN Box(newX, box.y, newW, Min(newH, layout.height - start.y))
               ELSE box
      [] OTHER ->
           LET newW == start.width + dx
               newH == start.height + dy
           IN  IF newW >= MIN_SIZE /\ newH >= MIN_SIZE
               THEN Box(box.x, box.y, Min(newW, layout.width - start.x),
                        Min(newH, layout.height - start.y))
               ELSE box

cornerGestureUpdate(corner, dx, dy) ==
    /\ CropScreenMounted
    /\ activeGesture = corner
    /\ cropBox' = cornerResize(corner, cropBox, startBox, imageLayout, dx, dy)
    /\ UNCHANGED <<stack, appStore, homeVars, overlayStore, imageLayout, imageSize, startBox,
                   activeGesture, getSize, gesturesBegun, layoutEvents, cropNetVars>>
    /\ UNCHANGED overlayVars

\* The finger lifts: no handler runs.
gestureEnd ==
    /\ CropScreenMounted
    /\ activeGesture # "none"
    /\ activeGesture' = "none"
    /\ UNCHANGED <<stack, appStore, homeVars, overlayStore, imageLayout, imageSize, cropBox,
                   startBox, getSize, gesturesBegun, layoutEvents, cropNetVars>>
    /\ UNCHANGED overlayVars

\* cropRequest with one scale factor for both axes.
cropRequest_OneScale(image, box, size, layout) ==
    LET scale == Quotient(size.width, layout.width)
    IN  [ image_base64 |-> image,
          crop_x |-> RoundScaled(box.x, scale),
          crop_y |-> RoundScaled(box.y, scale),
          crop_width |-> RoundScaled(box.width, scale),
          crop_height |-> RoundScaled(box.height, scale) ]

\* The body of the crop request handleConfirmCrop builds.
cropRequest(image, box, size, layout) ==
    LET scaleX == Quotient(size.width, layout.width)
        scaleY == Quotient(size.height, layout.height)
    IN  [ image_base64 |-> image,
          crop_x |-> RoundScaled(box.x, scaleX),
          crop_y |-> RoundScaled(box.y, scaleY),
          crop_width |-> RoundScaled(box.width, scaleX),
          crop_height |-> RoundScaled(box.height, scaleY) ]

\* handleConfirmCrop up to its await.  Both confirm buttons are disabled while
\* isCropping; without a source image the screen renders no button.
handleConfirmCrop ==
    /\ CropScreenMounted
    /\ ~overlayStore.isCropping
    /\ overlayStore.sourceImage # Null
    /\ cropSent < MaxCropRequests
    /\ overlayStore' = setCropRect(setIsCropping(overlayStore, TRUE), cropBox)
    /\ cropInFlight' = cropInFlight \cup
         {[id |-> cropSent + 1,
           body |-> cropRequest(overlayStore.sourceImage, cropBox, imageSize, imageLayout)]}
    /\ cropSent' = cropSent + 1
    /\ UNCHANGED <<stack, appStore, homeVars, cropScreenVars>>
    /\ UNCHANGED overlayVars

\* The request resolves and the size asked for is stored instead of the size
\* returned.
cropResolved_RequestedSize(r, returned) ==
    /\ r \in cropInFlight
    /\ cropInFlight' = cropInFlight \ {r}
    /\ overlayStore' =
         setIsCropping(
           toggleOverlayMode(
             toggleCropMode(
               setCroppedImage(overlayStore, <<"data:image/png;base64", r.id>>,
                               r.body.crop_width.val, r.body.crop_height.val),
               FALSE),
             TRUE),
           FALSE)
    /\ stack' = replace(stack, "overlay")
    /\ activeGesture' = "none"
    /\ getSize' = "idle"
    /\ mountOverlay(overlayStore', overlayRotation)
    /\ UNCHANGED <<appStore, homeVars, imageLayout, imageSize, cropBox, startBox, gesturesBegun,
                   layoutEvents, cropSent, overlayRotation, localNetVars>>

\* The request resolves: the rest of the try block, then finally.
cropResolved(r, returned) ==
    /\ r \in cropInFlight
    /\ cropInFlight' = cropInFlight \ {r}
    /\ overlayStore' =
         setIsCropping(
           toggleOverlayMode(
             toggleCropMode(
               setCroppedImage(overlayStore, <<"data:image/png;base64", r.id>>,
                               returned.width, returned.height),
               FALSE),
             TRUE),
           FALSE)
    /\ stack' = replace(stack, "overlay")
    /\ activeGesture' = "none"
    /\ getSize' = "idle"
    /\ mountOverlay(overlayStore', overlayRotation)
    /\ UNCHANGED <<appStore, homeVars, imageLayout, imageSize, cropBox, startBox, gesturesBegun,
                   layoutEvents, cropSent, overlayRotation, localNetVars>>

\* The request rejects and the flag is left set.
cropRejected_NoFinally(r) ==
    /\ r \in cropInFlight
    /\ cropInFlight' = cropInFlight \ {r}
    /\ UNCHANGED <<stack, appStore, homeVars, overlayStore, cropScreenVars, cropSent>>
    /\ UNCHANGED overlayVars

\* The request rejects (HTTP error, network error or the 120000 ms timeout):
\* catch shows an alert, then finally.
cropRejected(r) ==
    /\ r \in cropInFlight
    /\ cropInFlight' = cropInFlight \ {r}
    /\ overlayStore' = setIsCropping(overlayStore, FALSE)
    /\ UNCHANGED <<stack, appStore, homeVars, cropScreenVars, cropSent>>
    /\ UNCHANGED overlayVars

handleCancel ==
    /\ CropScreenMounted
    /\ overlayStore' = toggleCropMode(overlayStore, FALSE)
    /\ stack' = back(stack)
    /\ activeGesture' = "none"
    /\ getSize' = "idle"
    /\ UNCHANGED <<appStore, homeVars, imageLayout, imageSize, cropBox, startBox, gesturesBegun,
                   layoutEvents, cropNetVars>>
    /\ UNCHANGED overlayVars

----------------------------------------------------------------------------
(* Overlay adjustment screen, overlay.tsx: handlers *)

\* overlayStore.ts as given declares no overlayRotation and no
\* setOverlayRotation; overlay.tsx uses both.  The setter is taken to be a
\* plain set like its siblings, and the field to start at 0.
InitialOverlayRotation == 0
setOverlayRotation(rotation, degrees) == degrees

ScaleMin == 25
ScaleMax == 300
ScaleSliderMinimum == 25
ScaleSliderMaximum == 300
RotationSliderMinimum == -180
RotationSliderMaximum == 180
AlphaSliderMinimum == 10
AlphaSliderMaximum == 100
QuickRotations == {-15, -5, -1, 1, 5, 15}

\* Finger distances and angles of a two-finger touch, pan displacements, and
\* the slider positions tried.
Distances == {50, 400}
Angles == {-170, 0, 170}
PanDisplacements == {<<0, 0>>, <<30, -20>>}
ScaleSliderValues == {150, 300}
RotationSliderValues == {-180, 180}
AlphaSliderValues == {100}

\* A change of position or scale starts a debounce timer; the model sends at
\* most MaxLocalRequests local comparison requests.
MayStartTimer == timers # {} \/ lcSent < MaxLocalRequests

\* The pinch scale without its clamp.
pinchScale_Unclamped(startScale, currentDistance, initialDistance) ==
    (startScale * currentDistance) \div initialDistance

\* Math.max(0.25, Math.min(3, startScale * currentDistance / initialDistance)),
\* in hundredths.
pinchScale(startScale, currentDistance, initialDistance) ==
    IF startScale * currentDistance < ScaleMin * initialDistance THEN ScaleMin
    ELSE IF startScale * currentDistance > ScaleMax * initialDistance THEN ScaleMax
    ELSE (startScale * currentDistance) \div initialDistance

onPanResponderGrant(touches, distance, angle) ==
    /\ OverlayScreenMounted
    /\ ~touching
    /\ touching' = TRUE
    /\ gestureState' =
         [ startX |-> panClosure.overlayX, startY |-> panClosure.overlayY,
           startScale |-> panClosure.overlayScale,
           startRotation |-> panClosure.overlayRotation,
           initialDistance |-> IF touches < 2 THEN 0 ELSE distance,
           initialAngle |-> IF touches < 2 THEN 0 ELSE angle,
           isMultiTouch |-> touches >= 2 ]
    /\ UNCHANGED <<stack, appStore, homeVars, overlayStore, cropScreenVars, cropNetVars,
                   overlayRotation, panClosure, overlayImageLayout, timers, effectTimer, localNetVars>>

onPanResponderMove(touches, distance, angle, dx, dy) ==
    /\ OverlayScreenMounted
    /\ touching
    /\ MayStartTimer
    /\ LET pinch == touches >= 2 /\ gestureState.initialDistance > 0
           scaled == IF pinch
                     THEN setOverlayScale(overlayStore,
                            pinchScale(gestureState.startScale, distance,
                                       gestureState.initialDistance))
                     ELSE overlayStore
           rotated == IF pinch
                      THEN setOverlayRotation(overlayRotation,
                             gestureState.startRotation
                               + (angle - gestureState.initialAngle))
                      ELSE overlayRotation
           moved == setOverlayPosition(scaled, gestureState.startX + dx,
                                       gestureState.startY + dy)
       IN  /\ overlayStore' = moved
           /\ overlayRotation' = rotated
           /\ rerender(moved)
    /\ UNCHANGED <<stack, appStore, homeVars, cropScreenVars, cropNetVars, gestureState,
                   panClosure, overlayImageLayout, touching, localNetVars>>

onPanResponderRelease ==
    /\ OverlayScreenMounted
    /\ touching
    /\ touching' = FALSE
    /\ gestureState' =
         [gestureState EXCEPT !.startX = panClosure.overlayX,
                              !.startY = panClosure.overlayY,
                              !.startScale = panClosure.overlayScale,
                              !.startRotation = panClosure.overlayRotation]
    /\ UNCHANGED <<stack, appStore, homeVars, overlayStore, cropScreenVars, cropNetVars,
                   overlayRotation, panClosure, overlayImageLayout, timers, effectTimer, localNetVars>>

scaleSliderChange(value) ==
    /\ OverlayScreenMounted
    /\ MayStartTimer
    /\ ScaleSliderMinimum <= value
    /\ value <= ScaleSliderMaximum
    /\ overlayStore' = setOverlayScale(overlayStore, value)
    /\ rerender(overlayStore')
    /\ UNCHANGED <<stack, appStore, homeVars, cropScreenVars, cropNetVars, overlayRotation,
                   gestureState, panClosure, overlayImageLayout, touching, localNetVars>>

rotationSliderChange(value) ==
    /\ OverlayScreenMounted
    /\ RotationSliderMinimum <= value
    /\ value <= RotationSliderMaximum
    /\ overlayRotation' = setOverlayRotation(overlayRotation, value)
    /\ UNCHANGED <<stack, appStore, homeVars, overlayStore, cropScreenVars, cropNetVars,
                   overlayScreenVars, localNetVars>>

alphaSliderChange(value) ==
    /\ OverlayScreenMounted
    /\ AlphaSliderMinimum <= value
    /\ value <= AlphaSliderMaximum
    /\ overlayStore' = setOverlayAlpha(overlayStore, value)
    /\ UNCHANGED <<stack, appStore, homeVars, cropScreenVars, cropNetVars, overlayRotation,
                   overlayScreenVars, localNetVars>>

\* Quick rotation buttons.
rotateBy(degrees) ==
    /\ OverlayScreenMounted
    /\ overlayRotation + degrees <= MaxRotation
    /\ overlayRotation + degrees >= -MaxRotation
    /\ overlayRotation' = setOverlayRotation(overlayRotation, overlayRotation + degrees)
    /\ UNCHANGED <<stack, appStore, homeVars, overlayStore, cropScreenVars, cropNetVars,
                   overlayScreenVars, localNetVars>>

\* The 0-degree button between the quick rotation buttons.
rotateToZero ==
    /\ OverlayScreenMounted
    /\ overlayRotation' = setOverlayRotation(overlayRotation, 0)
    /\ UNCHANGED <<stack, appStore, homeVars, overlayStore, cropScreenVars, cropNetVars,
                   overlayScreenVars, localNetVars>>

handleReset ==
    /\ OverlayScreenMounted
    /\ MayStartTimer
    /\ overlayStore' =
         setOverlayAlpha(setOverlayScale(setOverlayPosition(overlayStore, 50, 50), 100), 70)
    /\ overlayRotation' = setOverlayRotation(overlayRotation, 0)
    /\ rerender(overlayStore')
    /\ UNCHANGED <<stack, appStore, homeVars, cropScreenVars, cropNetVars, gestureState,
                   panClosure, overlayImageLayout, touching, localNetVars>>

\* The request body with its position read from the closure of the first
\* render instead of the render that started the timer.
localComparisonRequest_MixedRenders(render) ==
    [ base_image |-> render.baseImage,
      overlay_image |-> render.croppedImage,
      overlay_x |-> MathRound(Quotient(panClosure.overlayX, 1)),
      overlay_y |-> MathRound(Quotient(panClosure.overlayY, 1)),
      overlay_width |-> MathRound(Quotient(render.croppedWidth * render.overlayScale, 100)),
      overlay_height |-> MathRound(Quotient(render.croppedHeight * render.overlayScale, 100)) ]

\* The body of the request runLocalComparison builds from its render.
localComparisonRequest(render) ==
    [ base_image |-> render.baseImage,
      overlay_image |-> render.croppedImage,
      overlay_x |-> MathRound(Quotient(render.overlayX, 1)),
      overlay_y |-> MathRound(Quotient(render.overlayY, 1)),
      overlay_width |-> MathRound(Quotient(render.croppedWidth * render.overlayScale, 100)),
      overlay_height |-> MathRound(Quotient(render.croppedHeight * render.overlayScale, 100)) ]

\* A debounce timer fires, 500 ms after its effect ran: runLocalComparison of
\* that render, up to its await.
timerFires(timer) ==
    /\ timer \in timers
    /\ timers' = timers \ {timer}
    /\ IF timer.baseImage = Null \/ timer.croppedImage = Null
       THEN UNCHANGED <<overlayStore, localNetVars>>
       ELSE LET request == [ id |-> lcSent + 1,
                             body |-> localComparisonRequest(timer) ]
            IN  /\ overlayStore' = setIsComparing(overlayStore, TRUE)
                /\ lcInFlight' = lcInFlight \cup {request}
                /\ lcSent' = lcSent + 1
    /\ UNCHANGED <<stack, appStore, homeVars, cropScreenVars, cropNetVars, overlayRotation,
                   gestureState, panClosure, overlayImageLayout, touching, effectTimer>>

\* What the local comparison endpoint answers.
LocalResults == { [local_ssim |-> 87, edge_overlap |-> 64] }

\* The request resolves: setLocalComparison, then finally.
localComparisonResolved(r, result) ==
    /\ r \in lcInFlight
    /\ lcInFlight' = lcInFlight \ {r}
    /\ overlayStore' =
         setIsComparing(
           setLocalComparison(overlayStore, result.local_ssim, result.edge_overlap,
                              <<"difference_heatmap", r.id>>,
                              <<"edge_visualization", r.id>>),
           FALSE)
    /\ UNCHANGED <<stack, appStore, homeVars, cropScreenVars, cropNetVars, overlayRotation,
                   overlayScreenVars, lcSent>>

\* The request rejects (HTTP error, network error or the 120000 ms timeout):
\* catch logs, then finally.
localComparisonRejected(r) ==
    /\ r \in lcInFlight
    /\ lcInFlight' = lcInFlight \ {r}
    /\ overlayStore' = setIsComparing(overlayStore, FALSE)
    /\ UNCHANGED <<stack, appStore, homeVars, cropScreenVars, cropNetVars, overlayRotation,
                   overlayScreenVars, lcSent>>

\* The Grid, Center and Heatmap toggle buttons.
toggleGridPress ==
    /\ OverlayScreenMounted
    /\ overlayStore' = toggleGrid(overlayStore)
    /\ UNCHANGED <<stack, appStore, homeVars, cropScreenVars, cropNetVars, overlayRotation,
                   overlayScreenVars, localNetVars>>

toggleCrosshairPress ==
    /\ OverlayScreenMounted
    /\ overlayStore' = toggleCrosshair(overlayStore)
    /\ UNCHANGED <<stack, appStore, homeVars, cropScreenVars, cropNetVars, overlayRotation,
                   overlayScreenVars, localNetVars>>

toggleHeatmapPress ==
    /\ OverlayScreenMounted
    /\ overlayStore' = toggleHeatmap(overlayStore)
    /\ UNCHANGED <<stack, appStore, homeVars, cropScreenVars, cropNetVars, overlayRotation,
                   overlayScreenVars, localNetVars>>

\* Base image onLayout.
overlayImageOnLayout(layout) ==
    /\ OverlayScreenMounted
    /\ overlayImageLayout # layout
    /\ overlayImageLayout' = layout
    /\ UNCHANGED <<stack, appStore, homeVars, overlayStore, cropScreenVars, cropNetVars,
                   overlayRotation, gestureState, panClosure, touching, timers,
                   effectTimer, localNetVars>>

\* Remove, confirmed in the alert.
handleRemove ==
    /\ OverlayScreenMounted
    /\ overlayStore' = resetOverlay(overlayStore)
    /\ stack' = back(stack)
    /\ unmountOverlay
    /\ UNCHANGED <<appStore, homeVars, cropScreenVars, cropNetVars, overlayRotation, localNetVars>>

handleBack ==
    /\ OverlayScreenMounted
    /\ overlayStore' = resetAll(overlayStore)
    /\ stack' = replace(stack, "index")
    /\ unmountOverlay
    /\ UNCHANGED <<appStore, homeVars, cropScreenVars, cropNetVars, overlayRotation, localNetVars>>

----------------------------------------------------------------------------
(* The crop screen, entered from the results screen of a finished comparison *)

vars == <<stack, appStore, overlayStore, imageLayout, imageSize, cropBox, startBox,
          activeGesture, getSize, gesturesBegun, layoutEvents, cropInFlight, cropSent,
          overlayRotation, gestureState, panClosure, overlayImageLayout, touching, timers,
          effectTimer,
          lcInFlight, lcSent, compareInFlight, compareSent, historyReload,
          historyScreen, historyLoads, detailsInFlight, detailsSent>>

\* No overlay screen has been mounted yet.
OverlayNotYetMounted ==
    /\ overlayRotation = InitialOverlayRotation
    /\ gestureState = [ startX |-> 50, startY |-> 50, startScale |-> 100,
                        startRotation |-> 0, initialDistance |-> 0,
                        initialAngle |-> 0, isMultiTouch |-> FALSE ]
    /\ panClosure = [ overlayX |-> 50, overlayY |-> 50, overlayScale |-> 100,
                      overlayRotation |-> 0 ]
    /\ overlayImageLayout = Size(0, 0)
    /\ touching = FALSE
    /\ timers = {}
    /\ effectTimer = Null
    /\ lcInFlight = {}
    /\ lcSent = 0

InitCrop ==
    /\ stack = <<"index", "results">>
    /\ appStore = ComparedAppStore(1)
    /\ compareInFlight = {}
    /\ compareSent = 1
    /\ historyReload = "idle"
    /\ HistoryNotYetOpened
    /\ overlayStore = InitialOverlayStore
    /\ imageLayout = InitialImageLayout
    /\ imageSize = InitialImageSize
    /\ cropBox = InitialCropBox
    /\ startBox = InitialStartBox
    /\ activeGesture = "none"
    /\ getSize = "idle"
    /\ gesturesBegun = 0
    /\ layoutEvents = 0
    /\ cropInFlight = {}
    /\ cropSent = 0
    /\ OverlayNotYetMounted

NextCrop ==
    \/ handleCropOverlayMode
    \/ getSizeSuccess
    \/ getSizeFailure
    \/ \E layout \in LayoutSizes \cup {CollapsedLayout} : handleImageLayout(layout)
    \/ handleConfirmCrop
    \/ \E r \in cropInFlight, returned \in ReturnedSizes : cropResolved(r, returned)
    \/ \E r \in cropInFlight : cropRejected(r)
    \/ handleCancel

SpecCrop == InitCrop /\ [][NextCrop]_vars

----------------------------------------------------------------------------
(* The gestures of a mounted crop screen, from its first layout at 300x400 *)

InitGestures ==
    /\ stack = <<"index", "results", "crop">>
    /\ appStore = ComparedAppStore(1)
    /\ compareInFlight = {}
    /\ compareSent = 1
    /\ historyReload = "idle"
    /\ HistoryNotYetOpened
    /\ overlayStore =
         toggleCropMode(
           setBaseImage(setSourceImage(InitialOverlayStore, QuestionedImage), KnownImage),
           TRUE)
    /\ imageLayout = Size(300, 400)
    /\ imageSize = InitialImageSize
    /\ cropBox = Box(45, 60, 210, 200)
    /\ startBox = InitialStartBox
    /\ activeGesture = "none"
    /\ getSize = "pending"
    /\ gesturesBegun = 0
    /\ layoutEvents = 0
    /\ cropInFlight = {}
    /\ cropSent = 0
    /\ OverlayNotYetMounted

NextGestures ==
    \/ \E layout \in LayoutSizes : handleImageLayout(layout)
    \/ moveGestureStart
    \/ \E tx \in Translations, ty \in Translations : moveGestureUpdate(tx, ty)
    \/ \E corner \in Corners : cornerGestureStart(corner)
    \/ \E corner \in Corners, dx \in Translations, dy \in Translations :
         cornerGestureUpdate(corner, dx, dy)
    \/ gestureEnd

SpecGestures == InitGestures /\ [][NextGestures]_vars

----------------------------------------------------------------------------
(* The overlay screen, from its mount after a crop of 300x200 source pixels *)

InitOverlay ==
    /\ stack = <<"index", "results", "overlay">>
    /\ appStore = ComparedAppStore(1)
    /\ compareInFlight = {}
    /\ compareSent = 1
    /\ historyReload = "idle"
    /\ HistoryNotYetOpened
    /\ overlayStore =
         toggleOverlayMode(
           setCroppedImage(
             setCropRect(
               setBaseImage(setSourceImage(InitialOverlayStore, QuestionedImage),
                            KnownImage),
               Box(45, 60, 210, 200)),
             <<"data:image/png;base64", 1>>, 300, 200),
           TRUE)
    /\ imageLayout = Size(300, 400)
    /\ imageSize = TrueSize(QuestionedImage)
    /\ cropBox = Box(45, 60, 210, 200)
    /\ startBox = InitialStartBox
    /\ activeGesture = "none"
    /\ getSize = "idle"
    /\ gesturesBegun = 0
    /\ layoutEvents = 1
    /\ cropInFlight = {}
    /\ cropSent = 1
    /\ overlayRotation = InitialOverlayRotation
    /\ gestureState = [ startX |-> 50, startY |-> 50, startScale |-> 100,
                        startRotation |-> 0, initialDistance |-> 0,
                        initialAngle |-> 0, isMultiTouch |-> FALSE ]
    /\ panClosure = [ overlayX |-> 50, overlayY |-> 50, overlayScale |-> 100,
                      overlayRotation |-> 0 ]
    /\ overlayImageLayout = Size(400, 300)
    /\ touching = FALSE
    /\ timers = {Render(overlayStore)}
    /\ effectTimer = <<Render(overlayStore)>>
    /\ lcInFlight = {}
    /\ lcSent = 0

NextOverlay ==
    \/ \E touches \in {1, 2}, distance \in Distances, angle \in Angles :
         onPanResponderGrant(touches, distance, angle)
    \/ \E touches \in {1, 2}, distance \in Distances, angle \in Angles,
          d \in PanDisplacements :
         onPanResponderMove(touches, distance, angle, d[1], d[2])
    \/ onPanResponderRelease
    \/ \E value \in ScaleSliderValues : scaleSliderChange(value)
    \/ handleReset
    \/ \E timer \in timers : timerFires(timer)
    \/ \E r \in lcInFlight, result \in LocalResults : localComparisonResolved(r, result)
    \/ \E r \in lcInFlight : localComparisonRejected(r)
    \/ handleRemove
    \/ handleBack

SpecOverlay == InitOverlay /\ [][NextOverlay]_vars

(* The rotation controls of the overlay screen *)

NextRotation ==
    \/ \E degrees \in QuickRotations : rotateBy(degrees)
    \/ rotateToZero
    \/ \E value \in RotationSliderValues : rotationSliderChange(value)
    \/ \E value \in AlphaSliderValues : alphaSliderChange(value)
    \/ handleReset

SpecRotation == InitOverlay /\ [][NextRotation]_vars

(* The two-finger gestures of the overlay screen, with finger distances whose
   ratios stay inside the scale limits and finger angles that differ by an
   amount that is not a multiple of 5 degrees *)

PinchDistances == {100, 150}
PinchAngles == {0, 12}

NextPinch ==
    \/ \E touches \in {1, 2}, distance \in PinchDistances, angle \in PinchAngles :
         onPanResponderGrant(touches, distance, angle)
    \/ \E touches \in {1, 2}, distance \in PinchDistances, angle \in PinchAngles,
          d \in PanDisplacements :
         onPanResponderMove(touches, distance, angle, d[1], d[2])
    \/ onPanResponderRelease
    \/ \E timer \in timers : timerFires(timer)
    \/ \E r \in lcInFlight, result \in LocalResults : localComparisonResolved(r, result)
    \/ \E r \in lcInFlight : localComparisonRejected(r)

SpecPinch == InitOverlay /\ [][NextPinch]_vars

----------------------------------------------------------------------------
(* The display-to-source mapping of handleConfirmCrop over a range of crop
   boxes, display sizes and source sizes *)

MapLayouts == {Size(500, 500), Size(300, 400), Size(7, 3)}
MapSourceSizes == {Size(1000, 1000), Size(600, 1200), Size(10, 1)}
MapBoxes ==
    {Box(x, y, w, h) : x \in {0, 1, 50}, y \in {0, 1, 50},
                       w \in {1, 2, 150}, h \in {1, 3, 100}}

Inside(box, layout) ==
    /\ box.width > 0
    /\ box.height > 0
    /\ box.x >= 0
    /\ box.y >= 0
    /\ box.x + box.width <= layout.width
    /\ box.y + box.height <= layout.height

InitMap ==
    /\ stack = <<"index", "results", "crop">>
    /\ appStore = ComparedAppStore(1)
    /\ compareInFlight = {}
    /\ compareSent = 1
    /\ historyReload = "idle"
    /\ HistoryNotYetOpened
    /\ overlayStore =
         toggleCropMode(
           setBaseImage(setSourceImage(InitialOverlayStore, QuestionedImage), KnownImage),
           TRUE)
    /\ imageLayout \in MapLayouts
    /\ imageSize \in MapSourceSizes
    /\ cropBox \in {b \in MapBoxes : Inside(b, imageLayout)}
    /\ startBox = InitialStartBox
    /\ activeGesture = "none"
    /\ getSize = "done"
    /\ gesturesBegun = 0
    /\ layoutEvents = 0
    /\ cropInFlight = {}
    /\ cropSent = 0
    /\ OverlayNotYetMounted

NextMap ==
    \/ handleConfirmCrop
    \/ \E r \in cropInFlight, returned \in ReturnedSizes : cropResolved(r, returned)
    \/ \E r \in cropInFlight : cropRejected(r)

SpecMap == InitMap /\ [][NextMap]_vars

----------------------------------------------------------------------------
(* handleConfirmCrop for crop boxes that reach the right or bottom edge of the
   displayed image, as a move gesture's clamp leaves them *)

EdgeLayouts == {Size(400, 300), Size(300, 400)}
EdgeSourceSizes == {Size(600, 1200), Size(1000, 1000), Size(800, 600)}
EdgeBoxes ==
    {Box(x, y, w, h) : x \in {0, 45, 90}, y \in {0, 45, 100},
                       w \in {210, 255, 355}, h \in {200, 255, 300}}

InitEdge ==
    /\ stack = <<"index", "results", "crop">>
    /\ appStore = ComparedAppStore(1)
    /\ compareInFlight = {}
    /\ compareSent = 1
    /\ historyReload = "idle"
    /\ HistoryNotYetOpened
    /\ overlayStore =
         toggleCropMode(
           setBaseImage(setSourceImage(InitialOverlayStore, QuestionedImage), KnownImage),
           TRUE)
    /\ imageLayout \in EdgeLayouts
    /\ imageSize \in EdgeSourceSizes
    /\ cropBox \in {b \in EdgeBoxes : Inside(b, imageLayout)}
    /\ startBox = InitialStartBox
    /\ activeGesture = "none"
    /\ getSize = "done"
    /\ gesturesBegun = 0
    /\ layoutEvents = 0
    /\ cropInFlight = {}
    /\ cropSent = 0
    /\ OverlayNotYetMounted

NextEdge ==
    \/ handleConfirmCrop
    \/ \E r \in cropInFlight, returned \in ReturnedSizes : cropResolved(r, returned)
    \/ \E r \in cropInFlight : cropRejected(r)

SpecEdge == InitEdge /\ [][NextEdge]_vars

----------------------------------------------------------------------------
(* The overlay store over a whole session: crop, overlay adjustment with its
   toggles, and the two ways out of the overlay screen *)

NextStore ==
    \/ handleCropOverlayMode
    \/ handleConfirmCrop
    \/ \E r \in cropInFlight : cropResolved(r, Size(300, 200))
    \/ \E r \in cropInFlight : cropRejected(r)
    \/ handleCancel
    \/ toggleGridPress
    \/ toggleCrosshairPress
    \/ toggleHeatmapPress
    \/ \E value \in {150} : scaleSliderChange(value)
    \/ \E timer \in timers : timerFires(timer)
    \/ \E r \in lcInFlight, result \in LocalResults : localComparisonResolved(r, result)
    \/ \E r \in lcInFlight : localComparisonRejected(r)
    \/ handleRemove
    \/ handleBack

SpecStore == InitCrop /\ [][NextStore]_vars

----------------------------------------------------------------------------
(* The placement sent by runLocalComparison, for a base image of 800x600
   pixels shown at several sizes *)

PlacementLayouts == {Size(400, 300), Size(800, 600), Size(200, 150)}
PlacementPositions == {0, 50, 120}
PlacementScales == {50, 100, 300}

InitPlacement ==
    /\ stack = <<"index", "results", "overlay">>
    /\ appStore = ComparedAppStore(1)
    /\ compareInFlight = {}
    /\ compareSent = 1
    /\ historyReload = "idle"
    /\ HistoryNotYetOpened
    /\ \E x \in PlacementPositions, y \in PlacementPositions, scale \in PlacementScales :
         overlayStore =
           setOverlayScale(
             setOverlayPosition(
               toggleOverlayMode(
                 setCroppedImage(
                   setBaseImage(setSourceImage(InitialOverlayStore, QuestionedImage),
                                KnownImage),
                   <<"data:image/png;base64", 1>>, 300, 200),
                 TRUE),
               x, y),
             scale)
    /\ imageLayout = Size(300, 400)
    /\ imageSize = TrueSize(QuestionedImage)
    /\ cropBox = InitialCropBox
    /\ startBox = InitialStartBox
    /\ activeGesture = "none"
    /\ getSize = "idle"
    /\ gesturesBegun = 0
    /\ layoutEvents = 1
    /\ cropInFlight = {}
    /\ cropSent = 1
    /\ overlayRotation = InitialOverlayRotation
    /\ gestureState = [ startX |-> overlayStore.overlayX, startY |-> overlayStore.overlayY,
                        startScale |-> overlayStore.overlayScale,
                        startRotation |-> 0, initialDistance |-> 0,
                        initialAngle |-> 0, isMultiTouch |-> FALSE ]
    /\ panClosure = [ overlayX |-> overlayStore.overlayX, overlayY |-> overlayStore.overlayY,
                      overlayScale |-> overlayStore.overlayScale, overlayRotation |-> 0 ]
    /\ overlayImageLayout = Size(0, 0)
    /\ touching = FALSE
    /\ timers = {Render(overlayStore)}
    /\ effectTimer = <<Render(overlayStore)>>
    /\ lcInFlight = {}
    /\ lcSent = 0

NextPlacement ==
    \/ \E layout \in PlacementLayouts : overlayImageOnLayout(layout)
    \/ \E timer \in timers : timerFires(timer)
    \/ \E r \in lcInFlight, result \in LocalResults : localComparisonResolved(r, result)
    \/ \E r \in lcInFlight : localComparisonRejected(r)

SpecPlacement == InitPlacement /\ [][NextPlacement]_vars

----------------------------------------------------------------------------
(* A whole session: compare, crop, overlay, and back to the home screen *)

InitApp ==
    /\ stack = <<"index">>
    /\ appStore = [InitialAppStore EXCEPT !.questionedImage = QuestionedImage,
                                          !.knownImage = KnownImage]
    /\ compareInFlight = {}
    /\ compareSent = 0
    /\ historyReload = "idle"
    /\ HistoryNotYetOpened
    /\ overlayStore = InitialOverlayStore
    /\ imageLayout = InitialImageLayout
    /\ imageSize = InitialImageSize
    /\ cropBox = InitialCropBox
    /\ startBox = InitialStartBox
    /\ activeGesture = "none"
    /\ getSize = "idle"
    /\ gesturesBegun = 0
    /\ layoutEvents = 0
    /\ cropInFlight = {}
    /\ cropSent = 0
    /\ OverlayNotYetMounted

NextApp ==
    \/ handleCompare
    \/ \E r \in compareInFlight : compareResolved(r)
    \/ \E r \in compareInFlight : compareRejected(r)
    \/ \E resolved \in BOOLEAN : historyReloadSettled(resolved)
    \/ handleCropOverlayMode
    \/ handleConfirmCrop
    \/ \E r \in cropInFlight, returned \in {Size(300, 200)} : cropResolved(r, returned)
    \/ \E r \in cropInFlight : cropRejected(r)
    \/ \E value \in {300} : scaleSliderChange(value)
    \/ \E timer \in timers : timerFires(timer)
    \/ \E r \in lcInFlight, result \in LocalResults : localComparisonResolved(r, result)
    \/ \E r \in lcInFlight : localComparisonRejected(r)
    \/ handleBack

SpecApp == InitApp /\ [][NextApp]_vars

\* Every request of the HTTP client settles, by its 120000 ms timeout at the
\* latest, and a due setTimeout callback runs.
AppFairness ==
    /\ WF_vars(\E r \in compareInFlight : compareResolved(r) \/ compareRejected(r))
    /\ WF_vars(\E resolved \in BOOLEAN : historyReloadSettled(resolved))
    /\ WF_vars(\E r \in cropInFlight :
                 \/ cropRejected(r)
                 \/ \E returned \in {Size(300, 200)} : cropResolved(r, returned))
    /\ WF_vars(\E timer \in timers : timerFires(timer))
    /\ WF_vars(\E r \in lcInFlight :
                 \/ localComparisonRejected(r)
                 \/ \E result \in LocalResults : localComparisonResolved(r, result))

SpecAppFair == SpecApp /\ AppFairness

----------------------------------------------------------------------------
(* The crop screen built on PanResponder: the crop rectangle is the store's
   cropRect, startPos.current.rect is startBox, and every responder is created
   once, in useRef, so its handlers keep the cropRect and imageLayout of the
   first render. *)

PanMIN_SIZE == 40

\* What the first render saw: the cropRect resetAll left, and no layout yet.
FirstRenderCropRect == resetAll(InitialOverlayStore).cropRect
FirstRenderImageLayout == Size(0, 0)

\* panResponder.onPanResponderGrant
panResponderGrant ==
    /\ CropScreenMounted
    /\ activeGesture = "none"
    /\ gesturesBegun < MaxGestures
    /\ gesturesBegun' = gesturesBegun + 1
    /\ activeGesture' = "move"
    /\ startBox' = FirstRenderCropRect
    /\ UNCHANGED <<stack, appStore, homeVars, overlayStore, imageLayout, imageSize, cropBox,
                   getSize, layoutEvents, cropNetVars>>
    /\ UNCHANGED overlayVars

\* panResponder.onPanResponderMove
panResponderMove(dx, dy) ==
    /\ CropScreenMounted
    /\ activeGesture = "move"
    /\ LET startRect == startBox
           newX == Max(0, Min(startRect.x + dx,
                              FirstRenderImageLayout.width - startRect.width))
           newY == Max(0, Min(startRect.y + dy,
                              FirstRenderImageLayout.height - startRect.height))
       IN  overlayStore' =
             setCropRect(overlayStore, [startRect EXCEPT !.x = newX, !.y = newY])
    /\ UNCHANGED <<stack, appStore, homeVars, imageLayout, imageSize, cropBox, startBox,
                   activeGesture, getSize, gesturesBegun, layoutEvents, cropNetVars>>
    /\ UNCHANGED overlayVars

\* createCornerResponder(corner).onPanResponderGrant
cornerResponderGrant(corner) ==
    /\ CropScreenMounted
    /\ activeGesture = "none"
    /\ gesturesBegun < MaxGestures
    /\ gesturesBegun' = gesturesBegun + 1
    /\ activeGesture' = corner
    /\ startBox' = FirstRenderCropRect
    /\ UNCHANGED <<stack, appStore, homeVars, overlayStore, imageLayout, imageSize, cropBox,
                   getSize, layoutEvents, cropNetVars>>
    /\ UNCHANGED overlayVars

\* handleResize, as the corner responders captured it.
handleResize(corner, store, startRect, dx, dy) ==
    LET x == IF corner \in {"tl", "bl"} THEN startRect.x + dx ELSE startRect.x
        y == IF corner \in {"tl", "tr"} THEN startRect.y + dy ELSE startRect.y
        width == IF corner \in {"tl", "bl"} THEN startRect.width - dx
                 ELSE startRect.width + dx
        height == IF corner \in {"tl", "tr"} THEN startRect.height - dy
                  ELSE startRect.height + dy
    IN  IF width >= PanMIN_SIZE /\ height >= PanMIN_SIZE
        THEN LET x2 == Max(0, x)
                 y2 == Max(0, y)
             IN  setCropRect(store,
                   Box(x2, y2,
                       Min(width, FirstRenderImageLayout.width - x2),
                       Min(height, FirstRenderImageLayout.height - y2)))
        ELSE store

\* createCornerResponder(corner).onPanResponderMove
cornerResponderMove(corner, dx, dy) ==
    /\ CropScreenMounted
    /\ activeGesture = corner
    /\ overlayStore' = handleResize(corner, overlayStore, startBox, dx, dy)
    /\ UNCHANGED <<stack, appStore, homeVars, imageLayout, imageSize, cropBox, startBox,
                   activeGesture, getSize, gesturesBegun, layoutEvents, cropNetVars>>
    /\ UNCHANGED overlayVars

\* onPanResponderRelease, of panResponder and of the corner responders.
panResponderRelease ==
    /\ CropScreenMounted
    /\ activeGesture # "none"
    /\ activeGesture' = "none"
    /\ startBox' = FirstRenderCropRect
    /\ UNCHANGED <<stack, appStore, homeVars, overlayStore, imageLayout, imageSize, cropBox,
                   getSize, gesturesBegun, layoutEvents, cropNetVars>>
    /\ UNCHANGED overlayVars

\* handleImageLayout of this screen, once the crop rectangle is initialised:
\* setImageLayout and nothing else.
panHandleImageLayout(layout) ==
    /\ CropScreenMounted
    /\ layoutEvents < MaxLayoutEvents
    /\ layoutEvents' = layoutEvents + 1
    /\ imageLayout' = layout
    /\ UNCHANGED <<stack, appStore, homeVars, overlayStore, imageSize, cropBox, startBox,
                   activeGesture, getSize, gesturesBegun, cropNetVars>>
    /\ UNCHANGED overlayVars

\* The screen after its first layout, 300x400, and the effect that
\* initialises the crop rectangle from it.
InitPanCrop ==
    /\ stack = <<"index", "results", "crop">>
    /\ appStore = ComparedAppStore(1)
    /\ compareInFlight = {}
    /\ compareSent = 1
    /\ historyReload = "idle"
    /\ HistoryNotYetOpened
    /\ overlayStore =
         setCropRect(
           toggleCropMode(
             setBaseImage(setSourceImage(resetAll(InitialOverlayStore), QuestionedImage),
                          KnownImage),
             TRUE),
           Box(45, 60, 210, 200))
    /\ imageLayout = Size(300, 400)
    /\ imageSize = InitialImageSize
    /\ cropBox = InitialCropBox
    /\ startBox = Box(45, 60, 210, 200)
    /\ activeGesture = "none"
    /\ getSize = "pending"
    /\ gesturesBegun = 0
    /\ layoutEvents = 0
    /\ cropInFlight = {}
    /\ cropSent = 0
    /\ OverlayNotYetMounted

NextPanCrop ==
    \/ \E layout \in LayoutSizes : panHandleImageLayout(layout)
    \/ panResponderGrant
    \/ \E dx \in Translations, dy \in Translations : panResponderMove(dx, dy)
    \/ \E corner \in Corners : cornerResponderGrant(corner)
    \/ \E corner \in Corners, dx \in Translations, dy \in Translations :
         cornerResponderMove(corner, dx, dy)
    \/ panResponderRelease

SpecPanCrop == InitPanCrop /\ [][NextPanCrop]_vars

----------------------------------------------------------------------------
(* The history screen, opened from the home screen after two comparisons *)

InitHistory ==
    /\ stack = <<"index">>
    /\ appStore = setHistory(ComparedAppStore(2), historyData(2))
    /\ compareInFlight = {}
    /\ compareSent = 2
    /\ historyReload = "idle"
    /\ HistoryNotYetOpened
    /\ overlayStore = InitialOverlayStore
    /\ imageLayout = InitialImageLayout
    /\ imageSize = InitialImageSize
    /\ cropBox = InitialCropBox
    /\ startBox = InitialStartBox
    /\ activeGesture = "none"
    /\ getSize = "idle"
    /\ gesturesBegun = 0
    /\ layoutEvents = 0
    /\ cropInFlight = {}
    /\ cropSent = 0
    /\ OverlayNotYetMounted

NextHistory ==
    \/ openHistory
    \/ \E mount \in historyLoads, resolved \in BOOLEAN : loadHistorySettled(mount, resolved)
    \/ \E item \in 1..MaxCompareRequests : handleViewDetails(item)
    \/ \E r \in detailsInFlight : detailsResolved(r)
    \/ \E r \in detailsInFlight : detailsRejected(r)
    \/ headerBack

SpecHistory == InitHistory /\ [][NextHistory]_vars

----------------------------------------------------------------------------
(* Score colours *)

\* overlay.tsx getScoreColor, applied to localSSIM and edgeOverlap.
getScoreColor(score) == IF score >= 50 THEN "#22c55e" ELSE "#ef4444"

\* The results screen's renderScoreCard getScoreColor, three-tier version.
renderScoreCard_getScoreColor(score) ==
    IF score >= 85 THEN "#22c55e"
    ELSE IF score >= 70 THEN "#f59e0b"
    ELSE "#ef4444"

\* The results screen's renderScoreCard getScoreColor, themed version
\* (C.success, C.danger).
themed_getScoreColor(score) == IF score >= 50 THEN "#10b981" ELSE "#dc2626"

\* The colours of the sub-score cards the results screen draws, card by card,
\* in either version of the screen.
ScoreCardColors ==
    IF Top(stack) = "results" /\ appStore.currentResult # Null
    THEN LET scores == appStore.currentResult[1].sub_scores
         IN { [i \in DOMAIN scores |-> renderScoreCard_getScoreColor(scores[i].score)],
              [i \in DOMAIN scores |-> themed_getScoreColor(scores[i].score)] }
    ELSE {}

\* The colours of the two local scores the overlay screen draws.
LocalScoreColors ==
    IF OverlayScreenMounted
    THEN << getScoreColor(overlayStore.localSSIM),
            getScoreColor(overlayStore.edgeOverlap) >>
    ELSE << >>

----------------------------------------------------------------------------
(* Claims *)

Abs(n) == IF n >= 0 THEN n ELSE -n

\* n is an integer nearest to v * s / d, for d > 0.
Nearest(n, v, s, d) == 2 * Abs(n * d - v * s) <= d

MapsToSource(body, box, size, layout) ==
    /\ body.crop_x.finite /\ Nearest(body.crop_x.val, box.x, size.width, layout.width)
    /\ body.crop_y.finite /\ Nearest(body.crop_y.val, box.y, size.height, layout.height)
    /\ body.crop_width.finite
    /\ Nearest(body.crop_width.val, box.width, size.width, layout.width)
    /\ body.crop_height.finite
    /\ Nearest(body.crop_height.val, box.height, size.height, layout.height)

ScenarioInput ==
    /\ cropBox = Box(50, 50, 150, 100)
    /\ imageLayout = Size(500, 500)
    /\ imageSize = Size(1000, 1000)

ScenarioBody(body) ==
    /\ body.crop_x = Finite(100)
    /\ body.crop_y = Finite(100)
    /\ body.crop_width = Finite(300)
    /\ body.crop_height = Finite(200)

\* C1: the request confirm-crop sends carries each coordinate of the crop box
\* scaled by source/display of its own axis and rounded to the nearest integer;
\* {50,50,150,100} on 1000x1000 shown at 500x500 is sent as {100,100,300,200}.
C1_CropRequestMapsDisplayToSource ==
    [][ (cropSent' = cropSent + 1 /\ imageLayout.width > 0 /\ imageLayout.height > 0)
        => \E r \in cropInFlight' :
             /\ r.id = cropSent'
             /\ MapsToSource(r.body, cropBox, imageSize, imageLayout)
             /\ (ScenarioInput => ScenarioBody(r.body)) ]_vars

C1_Witness ==
    /\ ScenarioInput
    /\ \E r \in cropInFlight : ScenarioBody(r.body)

C1_WitnessUnequalAxes ==
    /\ imageLayout = Size(300, 400)
    /\ imageSize = Size(600, 1200)
    /\ cropBox = Box(50, 50, 150, 100)
    /\ \E r \in cropInFlight :
         r.body.crop_x = Finite(100) /\ r.body.crop_y = Finite(150)

\* C2: on the crop screen the crop box always has positive width and height
\* and lies inside the displayed image.
C2_CropBoxInsideDisplay ==
    CropScreenMounted => Inside(cropBox, imageLayout)

\* C3: the overlay scale held in the store is never below 0.25 nor above 3.0
\* (25 and 300 hundredths), whatever pinches, slider changes and resets
\* have happened.
C3_ScaleWithinLimits ==
    /\ overlayStore.overlayScale >= 25
    /\ overlayStore.overlayScale <= 300

\* A pinch that spreads the fingers from 50 to 400 apart at scale 1.0 asks
\* for 8.0 and is stored as 3.0.
C3_Witness ==
    /\ OverlayScreenMounted
    /\ touching
    /\ gestureState.isMultiTouch
    /\ gestureState.startScale = 100
    /\ gestureState.initialDistance = 50
    /\ overlayStore.overlayScale = 300

\* C4: the overlay rotation is never below -180 nor above 180 degrees,
\* whatever quick buttons, slider changes and resets have happened.
C4_RotationWithinLimits ==
    /\ overlayRotation >= -180
    /\ overlayRotation <= 180

\* C5: every update of the overlay transform on the mounted screen, with both
\* images present, schedules a local comparison made with the updated
\* transform: after a step that changes position, scale or rotation a
\* debounce timer is pending, and it carries the updated position and scale.
C5_EveryTransformUpdateSchedulesComparison ==
    [][ ( /\ OverlayScreenMounted
          /\ OverlayScreenMounted'
          /\ overlayStore'.baseImage # Null
          /\ overlayStore'.croppedImage # Null
          /\ \/ overlayStore'.overlayX # overlayStore.overlayX
             \/ overlayStore'.overlayY # overlayStore.overlayY
             \/ overlayStore'.overlayScale # overlayStore.overlayScale
             \/ overlayRotation' # overlayRotation )
        => \E timer \in timers' :
             /\ timer.overlayX = overlayStore'.overlayX
             /\ timer.overlayY = overlayStore'.overlayY
             /\ timer.overlayScale = overlayStore'.overlayScale ]_vars

\* The body of a local comparison request carries the position and the
\* scaled size of the overlay held in store s.
CarriesTransformOf(body, s) ==
    /\ body.overlay_x = s.overlayX
    /\ body.overlay_y = s.overlayY
    /\ Nearest(body.overlay_width, s.croppedWidth, s.overlayScale, 100)
    /\ Nearest(body.overlay_height, s.croppedHeight, s.overlayScale, 100)

\* C6: at most one debounce timer is pending at any time; a change of
\* position or scale leaves exactly one pending timer, the one of the change;
\* and a step that sends a local comparison request leaves no timer pending
\* and sends the position and scale of the last change.
C6_ChangesAreCoalesced ==
    /\ [](Cardinality(timers) <= 1)
    /\ [][ /\ ( /\ OverlayScreenMounted
                /\ OverlayScreenMounted'
                /\ \/ overlayStore'.overlayX # overlayStore.overlayX
                   \/ overlayStore'.overlayY # overlayStore.overlayY
                   \/ overlayStore'.overlayScale # overlayStore.overlayScale )
              => /\ Cardinality(timers') = 1
                 /\ \A timer \in timers' :
                      /\ timer.overlayX = overlayStore'.overlayX
                      /\ timer.overlayY = overlayStore'.overlayY
                      /\ timer.overlayScale = overlayStore'.overlayScale
           /\ lcSent' = lcSent + 1
              => /\ timers' = {}
                 /\ \E r \in lcInFlight' :
                      /\ r.id = lcSent'
                      /\ CarriesTransformOf(r.body, overlayStore) ]_vars

\* A scale change to 1.5 and a move to (80, 30) both happened before the
\* first request, which carries both: 450x300 at (80, 30).
C6_Witness ==
    /\ lcSent = 1
    /\ timers = {}
    /\ \E r \in lcInFlight :
         /\ r.body.overlay_x = 80
         /\ r.body.overlay_y = 30
         /\ r.body.overlay_width = 450
         /\ r.body.overlay_height = 300

\* C7: once the response of a newer local comparison request has been stored,
\* the response of an older one never replaces it: the stored heatmap only
\* moves to the heatmap of a later request.
C7_OlderResponseNeverOverwrites ==
    [][ ( /\ overlayStore.differenceHeatmap # Null
          /\ overlayStore'.differenceHeatmap # Null )
        => overlayStore'.differenceHeatmap[2] >= overlayStore.differenceHeatmap[2] ]_vars

\* C8, as stated: whenever no request of a kind is in flight, the loading
\* flag of that kind is false.
C8_FlagFalseWheneverNoRequestInFlight ==
    /\ compareInFlight = {} => ~appStore.isComparing
    /\ cropInFlight = {} => ~overlayStore.isCropping
    /\ lcInFlight = {} => ~overlayStore.isComparing

\* C8: every compare, crop and local comparison request is eventually
\* settled, every loading flag that is set is eventually false again, and a
\* flag is false whenever no request of its kind is in flight and, for
\* appStore.isComparing, the history reload that handleCompare awaits after a
\* successful compare has returned.
C8_NoOperationBlocksIndefinitely ==
    /\ [](compareInFlight = {} /\ historyReload = "idle" => ~appStore.isComparing)
    /\ [](cropInFlight = {} => ~overlayStore.isCropping)
    /\ [](lcInFlight = {} => ~overlayStore.isComparing)
    /\ \A id \in 1..(MaxCompareRequests + 1) :
         ([id |-> id] \in compareInFlight) ~> ([id |-> id] \notin compareInFlight)
    /\ \A id \in 1..(MaxCropRequests + 1) :
         (\E r \in cropInFlight : r.id = id) ~> (\A r \in cropInFlight : r.id # id)
    /\ \A id \in 1..(MaxLocalRequests + 1) :
         (\E r \in lcInFlight : r.id = id) ~> (\A r \in lcInFlight : r.id # id)
    /\ appStore.isComparing ~> ~appStore.isComparing
    /\ overlayStore.isCropping ~> ~overlayStore.isCropping
    /\ overlayStore.isComparing ~> ~overlayStore.isComparing

\* The second compare of a session has resolved and its history reload is
\* awaited: no compare request is in flight, the flag is still set.
C8_Witness ==
    /\ compareSent = 2
    /\ compareInFlight = {}
    /\ historyReload = "pending"
    /\ appStore.isComparing
    /\ appStore.currentResult = <<CompositeResult(2)>>
    /\ cropSent > 0
    /\ lcSent > 0

\* C9: while the display size has a dimension <= 0, confirm sends no crop
\* request.
C9_NoRequestFromDegenerateDisplay ==
    [][ (imageLayout.width <= 0 \/ imageLayout.height <= 0)
        => cropSent' = cropSent ]_vars

\* C10: every crop request is scaled with the true pixel size of the current
\* source image.
C10_RequestUsesTrueSourceSize ==
    [][ cropSent' = cropSent + 1
        => imageSize = TrueSize(overlayStore.sourceImage) ]_vars

\* C11: the position sent in a local comparison request is the on-screen
\* position of the overlay mapped to the base image's pixels: overlay_x is
\* the nearest integer to overlayX * (base pixel width / base display width),
\* and overlay_y likewise with the heights.
C11_PlacementMappedToBasePixels ==
    [][ ( /\ lcSent' = lcSent + 1
          /\ overlayImageLayout.width > 0
          /\ overlayImageLayout.height > 0 )
        => \E r \in lcInFlight' :
             /\ r.id = lcSent'
             /\ Nearest(r.body.overlay_x, overlayStore.overlayX,
                        TrueSize(overlayStore.baseImage).width, overlayImageLayout.width)
             /\ Nearest(r.body.overlay_y, overlayStore.overlayY,
                        TrueSize(overlayStore.baseImage).height,
                        overlayImageLayout.height) ]_vars

\* C12: a local comparison request is built from one snapshot of the overlay
\* transform: the request a step sends carries the position, scale and cropped
\* size the store held together just before that step, and while a request is
\* in flight no later change of the store changes its body.
C12_RequestIsOneSnapshot ==
    [][ /\ lcSent' = lcSent + 1
           => \E r \in lcInFlight' \ lcInFlight :
                /\ r.id = lcSent'
                /\ r.body.overlay_x = overlayStore.overlayX
                /\ r.body.overlay_y = overlayStore.overlayY
                /\ Nearest(r.body.overlay_width, overlayStore.croppedWidth,
                           overlayStore.overlayScale, 100)
                /\ Nearest(r.body.overlay_height, overlayStore.croppedHeight,
                           overlayStore.overlayScale, 100)
        /\ \A r \in lcInFlight, q \in lcInFlight' : r.id = q.id => r.body = q.body ]_vars

\* A request sent at position (50, 50) and scale 1.0 is still in flight, with
\* its body unchanged, after the store moved on to (80, 30) and scale 3.0.
C12_Witness ==
    /\ overlayStore.overlayX = 80
    /\ overlayStore.overlayY = 30
    /\ overlayStore.overlayScale = 300
    /\ \E r \in lcInFlight :
         /\ r.body.overlay_x = 50
         /\ r.body.overlay_y = 50
         /\ r.body.overlay_width = 300
         /\ r.body.overlay_height = 200

\* C13: when a compare request fails, the error is set to a message, no
\* further request is sent, currentResult is unchanged, the app stays on the
\* screen it is on, and isComparing is false; and a press of the analyze
\* button sends exactly one request.
C13_CompareFailureSurfacedNotRetried ==
    [][ /\ ( /\ \E r \in compareInFlight : r \notin compareInFlight'
             /\ historyReload' = "idle"
             /\ historyReload = "idle" )
           => /\ appStore'.error # Null
              /\ compareSent' = compareSent
              /\ compareInFlight' = {}
              /\ appStore'.currentResult = appStore.currentResult
              /\ stack' = stack
              /\ ~appStore'.isComparing
        /\ (appStore'.isComparing /\ ~appStore.isComparing)
           => /\ compareSent' = compareSent + 1
              /\ compareInFlight' = {[id |-> compareSent']}
              /\ appStore'.error = Null ]_vars

\* The second comparison of a session failed: its error is shown on the home
\* screen and the result of the first comparison is still the current one.
C13_Witness ==
    /\ compareSent = 2
    /\ compareInFlight = {}
    /\ historyReload = "idle"
    /\ appStore.error # Null
    /\ ~appStore.isComparing
    /\ appStore.currentResult = <<CompositeResult(1)>>
    /\ Top(stack) = "index"

\* C14: when a crop request fails (it is settled without its image being
\* stored), croppedImage, croppedWidth, croppedHeight, isCropMode and
\* isOverlayMode are unchanged, the app stays on the screen it is on, and
\* isCropping is false.
C14_CropFailureLeavesCallerAbleToRetry ==
    [][ \A r \in cropInFlight :
          ( /\ r \notin cropInFlight'
            /\ overlayStore'.croppedImage # <<"data:image/png;base64", r.id>> )
          => /\ overlayStore'.croppedImage = overlayStore.croppedImage
             /\ overlayStore'.croppedWidth = overlayStore.croppedWidth
             /\ overlayStore'.croppedHeight = overlayStore.croppedHeight
             /\ overlayStore'.isCropMode = overlayStore.isCropMode
             /\ overlayStore'.isOverlayMode = overlayStore.isOverlayMode
             /\ stack' = stack
             /\ ~overlayStore'.isCropping ]_vars

\* A crop request has failed: the crop screen is still shown in crop mode,
\* nothing is cropped, and confirm is enabled again.
C14_Witness ==
    /\ cropSent = 1
    /\ cropInFlight = {}
    /\ CropScreenMounted
    /\ overlayStore.isCropMode
    /\ ~overlayStore.isOverlayMode
    /\ overlayStore.croppedImage = Null
    /\ ~overlayStore.isCropping
    /\ ENABLED handleConfirmCrop

\* C15: when a crop request succeeds (its image is stored), croppedWidth and
\* croppedHeight are the width and height cropRegion returned, isCropMode is
\* false, isOverlayMode is true, isCropping is false, and the overlay screen
\* is on top.
C15_CropSuccessStoresReturnedRegion ==
    [][ \A r \in cropInFlight :
          ( /\ r \notin cropInFlight'
            /\ overlayStore'.croppedImage = <<"data:image/png;base64", r.id>> )
          => /\ Size(overlayStore'.croppedWidth, overlayStore'.croppedHeight)
                  \in ReturnedSizes
             /\ ~overlayStore'.isCropMode
             /\ overlayStore'.isOverlayMode
             /\ ~overlayStore'.isCropping
             /\ Top(stack') = "overlay" ]_vars

\* A crop of 667x500 source pixels was asked for and 120x90 came back: the
\* store holds 120x90.
C15_Witness ==
    /\ cropSent = 1
    /\ cropInFlight = {}
    /\ overlayStore.croppedImage = <<"data:image/png;base64", 1>>
    /\ overlayStore.croppedWidth = 120
    /\ overlayStore.croppedHeight = 90
    /\ overlayStore.cropRect = InitialCropBox
    /\ ~overlayStore.isCropMode
    /\ overlayStore.isOverlayMode
    /\ Top(stack) = "overlay"

Green == {"#22c55e", "#10b981"}
Red == {"#ef4444", "#dc2626"}

ColouredByThreshold(score, colour) ==
    /\ score >= 50 <=> colour \in Green
    /\ score < 50 <=> colour \in Red

\* C16: every score a screen colours (the results sub-score cards, the
\* overlay's local SSIM and edge match) is green iff it is at least 50 and
\* red iff it is below 50.
C16_OneThresholdEverywhere ==
    /\ \A colours \in ScoreCardColors :
         \A i \in DOMAIN colours :
           ColouredByThreshold(appStore.currentResult[1].sub_scores[i].score,
                               colours[i])
    /\ LocalScoreColors # << >>
         => /\ ColouredByThreshold(overlayStore.localSSIM, LocalScoreColors[1])
            /\ ColouredByThreshold(overlayStore.edgeOverlap, LocalScoreColors[2])

\* What a step of the crop screen must do to a crop box that moves by start
\* position and translation: a move gesture starts from the position the box
\* has at that moment, and an update of the gesture puts the box at the start
\* position plus a translation, clamped on each axis to
\* [0, display size - box size], and keeps the size of the box (a layout
\* event is not an update of the gesture).
MovesFromStartByTranslation(box, boxNext) ==
    /\ (activeGesture = "none" /\ activeGesture' = "move")
         => /\ startBox'.x = box.x
            /\ startBox'.y = box.y
    /\ (activeGesture = "move" /\ activeGesture' = "move"
          /\ layoutEvents' = layoutEvents /\ boxNext # box)
         => /\ \E tx \in Translations, ty \in Translations :
                 /\ boxNext.x = Max(0, Min(startBox.x + tx, imageLayout.width - box.width))
                 /\ boxNext.y = Max(0, Min(startBox.y + ty, imageLayout.height - box.height))
            /\ boxNext.width = box.width
            /\ boxNext.height = box.height

\* The move gesture of the crop screen built on gesture-handler moves the box
\* from its start position by the translation.
MoveGestureFromStartByTranslation ==
    [][MovesFromStartByTranslation(cropBox, cropBox')]_vars

\* C17: every move gesture of the crop box begins from the position the box
\* has when the gesture starts, and during the gesture the position is that
\* start position plus the translation, clamped to [0, display - box size];
\* stated for the crop screen built on PanResponder.
C17_MoveFromStartByTranslation ==
    [][MovesFromStartByTranslation(overlayStore.cropRect, overlayStore'.cropRect)]_vars

\* A two-finger update of a gesture that began with two fingers apart.
PinchUpdate ==
    /\ touching /\ touching'
    /\ gestureState.initialDistance > 0
    /\ gestureState' = gestureState

\* scale (in hundredths) is startScale * (1 + 0.4 * (r - 1)) clamped to
\* [0.25, 3], for r = currentDistance / initialDistance, to within one
\* hundredth.
IsDampedScale(scale, startScale, currentDistance, initialDistance) ==
    LET num == startScale * (6 * initialDistance + 4 * currentDistance)
        den == 10 * initialDistance
    IN  IF num < ScaleMin * den THEN scale = ScaleMin
        ELSE IF num > ScaleMax * den THEN scale = ScaleMax
        ELSE Abs(scale * den - num) <= den

\* C18: a pinch whose finger distance changes by ratio r from the gesture
\* start sets the overlay scale to startScale * (1 + 0.4 * (r - 1)), clamped.
C18_PinchScaleIsDamped ==
    [][ (PinchUpdate /\ overlayStore'.overlayScale # overlayStore.overlayScale)
          => \E currentDistance \in PinchDistances :
               IsDampedScale(overlayStore'.overlayScale, gestureState.startScale,
                             currentDistance, gestureState.initialDistance) ]_vars

\* C19: after a two-finger rotate update the overlay rotation the gesture
\* set is a multiple of 5 degrees.
C19_RotationSnapsToFive ==
    [][ (PinchUpdate /\ overlayRotation' # overlayRotation)
          => overlayRotation' % 5 = 0 ]_vars

\* C20: a comparison opened from the history screen is placed in
\* currentResult with the composite_score, verdict, verdict_color, sub_scores,
\* ai_analysis, processed images and difference_heatmap of the result the
\* comparison produced when it ran.
C20_HistoryRoundTrip ==
    [][ \A r \in detailsInFlight :
          (r \notin detailsInFlight' /\ stack' = push(stack, "results"))
            => LET opened == appStore'.currentResult[1]
                   produced == CompositeResult(r.id)
               IN  /\ opened.composite_score = produced.composite_score
                   /\ opened.verdict = produced.verdict
                   /\ opened.verdict_color = produced.verdict_color
                   /\ opened.sub_scores = produced.sub_scores
                   /\ opened.ai_analysis = produced.ai_analysis
                   /\ opened.processed_questioned = produced.processed_questioned
                   /\ opened.processed_known = produced.processed_known
                   /\ opened.difference_heatmap = produced.difference_heatmap ]_vars

\* C21: on the overlay screen isComparing is true exactly while a local
\* comparison request is in flight.
C21_ComparingWhileRequestInFlight ==
    OverlayScreenMounted => (overlayStore.isComparing <=> lcInFlight # {})

\* C22: once the crop screen has been left by Cancel, the response of a crop
\* request still in flight neither sets croppedImage, nor turns isOverlayMode
\* on, nor navigates.
C22_CancelIsFinal ==
    [][ \A r \in cropInFlight :
          (~CropScreenMounted /\ r \notin cropInFlight')
            => /\ overlayStore'.croppedImage = overlayStore.croppedImage
               /\ overlayStore'.isOverlayMode = overlayStore.isOverlayMode
               /\ stack' = stack ]_vars

\* C23: once the overlay session is ended by resetAll or resetOverlay (no
\* cropped image any more), the local comparison results stay reset until a
\* new crop is stored.
C23_ResultsStayResetAfterSessionEnd ==
    overlayStore.croppedImage = Null
      => /\ overlayStore.localSSIM = 0
         /\ overlayStore.edgeOverlap = 0
         /\ overlayStore.differenceHeatmap = Null
         /\ overlayStore.edgeVisualization = Null

\* C24: every gesture on the overlay starts from the overlay's current
\* transform: when a touch is granted, the start position and start scale the
\* gesture works from are the position and scale the overlay has then.
C24_GestureStartsFromCurrentTransform ==
    [][ (~touching /\ touching')
          => /\ gestureState'.startX = overlayStore.overlayX
             /\ gestureState'.startY = overlayStore.overlayY
             /\ gestureState'.startScale = overlayStore.overlayScale ]_vars

\* C25: for a crop box inside the display, the rectangle a crop request
\* carries lies inside the source image and is at least one pixel wide and
\* high.
C25_RequestInsideSource ==
    [][ (cropSent' = cropSent + 1 /\ Inside(cropBox, imageLayout))
          => \A r \in cropInFlight' \ cropInFlight :
               /\ r.body.crop_x.finite /\ r.body.crop_width.finite
               /\ r.body.crop_y.finite /\ r.body.crop_height.finite
               /\ r.body.crop_width.val >= 1
               /\ r.body.crop_height.val >= 1
               /\ r.body.crop_x.val + r.body.crop_width.val <= imageSize.width
               /\ r.body.crop_y.val + r.body.crop_height.val <= imageSize.height ]_vars

\* C26: a compare request is sent only with both images present and no
\* compare request in flight, a crop request only with no crop request in
\* flight; so at most one request of each kind is in flight at any time.
C26_SingleFlight ==
    [][ /\ compareSent' # compareSent
          => /\ appStore.questionedImage # Null
             /\ appStore.knownImage # Null
             /\ compareInFlight = {}
             /\ Cardinality(compareInFlight') = 1
        /\ cropSent' # cropSent
          => /\ cropInFlight = {}
             /\ Cardinality(cropInFlight') = 1 ]_vars

\* An update of a corner gesture was applied to the crop box.
CornerUpdateApplied ==
    /\ activeGesture \in Corners
    /\ activeGesture' = activeGesture
    /\ layoutEvents' = layoutEvents
    /\ cropBox' # cropBox

\* box and boxNext have the corner opposite to corner in the same place.
OppositeCornerKept(corner, box, boxNext) ==
    /\ corner \in {"tl", "bl"} => boxNext.x + boxNext.width = box.x + box.width
    /\ corner \in {"tr", "br"} => boxNext.x = box.x
    /\ corner \in {"tl", "tr"} => boxNext.y + boxNext.height = box.y + box.height
    /\ corner \in {"bl", "br"} => boxNext.y = box.y

\* C27: an applied corner-resize update keeps the opposite corner of the crop
\* box where it was and leaves width and height at least MIN_SIZE.
C27_CornerResizeMovesOneCorner ==
    [][ CornerUpdateApplied
          => /\ OppositeCornerKept(activeGesture, cropBox, cropBox')
             /\ cropBox'.width >= MIN_SIZE
             /\ cropBox'.height >= MIN_SIZE ]_vars

\* The same for the crop screen built on PanResponder, whose crop box is the
\* store's cropRect and whose minimum size is 40.
PanCornerResizeMovesOneCorner ==
    [][ (/\ activeGesture \in Corners
         /\ activeGesture' = activeGesture
         /\ layoutEvents' = layoutEvents
         /\ overlayStore'.cropRect # overlayStore.cropRect)
          => /\ OppositeCornerKept(activeGesture, overlayStore.cropRect,
                                   overlayStore'.cropRect)
             /\ overlayStore'.cropRect.width >= PanMIN_SIZE
             /\ overlayStore'.cropRect.height >= PanMIN_SIZE ]_vars

\* C28: resetAll returns the overlay store to its initial state from any
\* state, and resetAll applied twice equals resetAll applied once.
C28_ResetAllRestoresInitialState ==
    /\ resetAll(overlayStore) = InitialOverlayStore
    /\ resetAll(resetAll(overlayStore)) = resetAll(overlayStore)

\* The overlay store was reset by handleBack at the end of a session in which
\* a crop was stored and a local comparison was requested.
C28_Witness ==
    /\ Top(stack) = "index"
    /\ cropSent >= 1
    /\ lcSent >= 1
    /\ overlayStore = InitialOverlayStore

\* C29: resetOverlay resets the overlay session (cropped image and size,
\* overlay position, scale and alpha, isOverlayMode, local comparison results)
\* and leaves sourceImage, baseImage, cropRect, isCropMode, the three toggles,
\* isCropping and isComparing as they are.
C29_ResetOverlayResetsOnlyTheSession ==
    LET after == resetOverlay(overlayStore)
    IN  /\ after.croppedImage = Null
        /\ after.croppedWidth = 0
        /\ after.croppedHeight = 0
        /\ after.overlayX = InitialOverlayStore.overlayX
        /\ after.overlayY = InitialOverlayStore.overlayY
        /\ after.overlayScale = InitialOverlayStore.overlayScale
        /\ after.overlayAlpha = InitialOverlayStore.overlayAlpha
        /\ ~after.isOverlayMode
        /\ after.localSSIM = 0
        /\ after.edgeOverlap = 0
        /\ after.differenceHeatmap = Null
        /\ after.edgeVisualization = Null
        /\ after.sourceImage = overlayStore.sourceImage
        /\ after.baseImage = overlayStore.baseImage
        /\ after.cropRect = overlayStore.cropRect
        /\ after.isCropMode = overlayStore.isCropMode
        /\ after.showGrid = overlayStore.showGrid
        /\ after.showCrosshair = overlayStore.showCrosshair
        /\ after.showHeatmap = overlayStore.showHeatmap
        /\ after.isCropping = overlayStore.isCropping
        /\ after.isComparing = overlayStore.isComparing
        /\ DOMAIN after = DOMAIN overlayStore

\* Remove was confirmed while a local comparison was running, the grid shown
\* and the crosshair hidden: the session is gone, the images, the crop
\* rectangle, the toggles and isComparing are kept.
C29_Witness ==
    /\ Top(stack) = "results"
    /\ lcInFlight # {}
    /\ overlayStore.croppedImage = Null
    /\ overlayStore.overlayScale = 100
    /\ ~overlayStore.isOverlayMode
    /\ overlayStore.sourceImage = QuestionedImage
    /\ overlayStore.baseImage = KnownImage
    /\ overlayStore.cropRect = InitialCropBox
    /\ overlayStore.showGrid
    /\ ~overlayStore.showCrosshair
    /\ overlayStore.isComparing

====
